---- MODULE Spec2Model ----
(***************************************************************************)
(* Chatbot flow builder: the FlowBuilder component (nodes, edges,          *)
(* selection), the SettingsPanel inspector (local mirror, deferred         *)
(* commits) and the TextNode inline editor, as a state machine.            *)
(***************************************************************************)
EXTENDS Integers, Sequences, FiniteSets, TLC

(* ---- bounds of the model ---- *)
MaxNodes == 2       \* nodes on the canvas (guard of addNode)
MaxEdges == 2       \* edges on the canvas (guard of an accepted onConnect)
MaxClock == 3       \* values of Date.now()
MaxTimers == 2      \* pending inspector timers
MaxSaveNodes == 3   \* nodes of the graphs saveFlow is applied to in SpecSave
MaxUpdateNodes == 2 \* nodes of the flows updateNodeData is applied to in SpecUpdate

(* ---- values ---- *)
\* A handle without an id: Connection.sourceHandle / targetHandle is null.
NoHandle == "null"
\* The source handles the canvas renders: TextNode has one, without an id.
SourceHandles == {NoHandle}
\* Source handle ids a Connection may carry (string | null).
AnyHandles == {NoHandle, "b"}
TargetHandles == {NoHandle}
\* Node types registered in the palette, and what a drop may carry.
PaletteTypes == {"textNode"}
DropTypes == {"textNode", ""}
\* Positions handed to addNode.
Positions == {[x |-> 200, y |-> 200]}
\* Values typed in the inspector and in the in-node editor.
InspectorVals == {"x"}
InlineVals == {"y"}
Fields == {"text", "label"}

VARIABLES
  nodes,         \* useNodesState: the node array
  edges,         \* useEdgesState: the edge array (order is never read)
  selectedNode,  \* useState<Node | null>: <<>> is null, <<n>> a node snapshot
  localData,     \* SettingsPanel localData: <<>> while the panel is not mounted
  hasChanges,    \* SettingsPanel hasChanges
  timers,        \* pending setTimeout callbacks of handleDataChange, oldest first
  now,           \* Date.now()
  toasts,        \* notifications emitted by the most recent handler call
  sink           \* snapshots handed to console/network by the most recent call

vars == <<nodes, edges, selectedNode, localData, hasChanges, timers, now, toasts, sink>>

(* ---- initial data ---- *)
initialNodes ==
  << [id |-> <<1, 0>>, type |-> "textNode", position |-> [x |-> 250, y |-> 200],
      data |-> [text |-> "Welcome! Start building your chatbot flow.",
                label |-> "Welcome Message"]] >>

initialEdges == {}

(* ---- helpers ---- *)
\* { ...old, ...new }
Spread(old, new) ==
  [f \in (DOMAIN old) \cup (DOMAIN new) |-> IF f \in DOMAIN new THEN new[f] ELSE old[f]]

NodeIds(nds) == {nds[i].id : i \in 1..Len(nds)}

ToastConnectionError ==
  [title |-> "Connection Error", variant |-> "destructive"]
ToastValidationError ==
  [title |-> "Validation Error", variant |-> "destructive"]
ToastFlowSaved ==
  [title |-> "Flow Saved", variant |-> "default"]

(* ---- addEdge of @xyflow/react, as FlowBuilder calls it: the connection is  *)
(* ---- appended with a generated id unless the same connection exists     *)
getEdgeId(params) ==
  <<params.source, params.sourceHandle, params.target, params.targetHandle>>

connectionExists(edge, eds) ==
  \E el \in eds : /\ el.source = edge.source
                  /\ el.target = edge.target
                  /\ el.sourceHandle = edge.sourceHandle
                  /\ el.targetHandle = edge.targetHandle

addEdge(params, eds) ==
  LET edge == [id |-> getEdgeId(params), source |-> params.source,
               sourceHandle |-> params.sourceHandle, target |-> params.target,
               targetHandle |-> params.targetHandle]
  IN IF connectionExists(edge, eds) THEN eds ELSE eds \cup {edge}

\* Connections the canvas can propose: between nodes that are on the canvas.
Connections(handles) ==
  [source : NodeIds(nodes), sourceHandle : handles,
   target : NodeIds(nodes), targetHandle : TargetHandles]

(* ---- FlowBuilder.onConnect ---- *)
\* variant: the lookup compares the target node instead of the source handle
existingEdgeSameTarget(params, eds) ==
  \E edge \in eds : edge.source = params.source /\ edge.target = params.target

\* variant: the lookup ignores the source handle
existingEdgeAnyHandle(params, eds) ==
  \E edge \in eds : edge.source = params.source

existingEdge(params, eds) ==
  \E edge \in eds : edge.source = params.source /\ edge.sourceHandle = params.sourceHandle

\* variant: a second connection from a handle replaces the first one
onConnectReplacing(params) ==
  /\ IF existingEdge(params, edges)
       THEN /\ toasts' = <<ToastConnectionError>>
            /\ edges' = addEdge(params, {edge \in edges :
                            ~(edge.source = params.source
                              /\ edge.sourceHandle = params.sourceHandle)})
       ELSE /\ Cardinality(edges) < MaxEdges
            /\ edges' = addEdge(params, edges)
            /\ toasts' = <<>>
  /\ sink' = <<>>
  /\ UNCHANGED <<nodes, selectedNode, localData, hasChanges, timers, now>>

\* variant: the rejection returns without a toast
onConnectSilent(params) ==
  /\ IF existingEdge(params, edges)
       THEN /\ toasts' = <<>>
            /\ edges' = edges
       ELSE /\ Cardinality(edges) < MaxEdges
            /\ edges' = addEdge(params, edges)
            /\ toasts' = <<>>
  /\ sink' = <<>>
  /\ UNCHANGED <<nodes, selectedNode, localData, hasChanges, timers, now>>

onConnect(params) ==
  /\ IF existingEdge(params, edges)
       THEN /\ toasts' = <<ToastConnectionError>>
            /\ edges' = edges
       ELSE /\ Cardinality(edges) < MaxEdges
            /\ edges' = addEdge(params, edges)
            /\ toasts' = <<>>
  /\ sink' = <<>>
  /\ UNCHANGED <<nodes, selectedNode, localData, hasChanges, timers, now>>

(* ---- FlowBuilder.saveFlow ---- *)
\* variant: the filter looks at edge.source, as the README words the rule
nodesWithoutSources(nds, eds) ==
  {i \in 1..Len(nds) : ~ \E edge \in eds : edge.source = nds[i].id}

nodesWithoutTargets(nds, eds) ==
  {i \in 1..Len(nds) : ~ \E edge \in eds : edge.target = nds[i].id}

\* variant: no shortcut for small flows, and the threshold is off by one
saveResultNoShortcut(nds, eds) ==
  IF Cardinality(nodesWithoutTargets(nds, eds)) >= 1 THEN ToastValidationError
  ELSE ToastFlowSaved

saveResult(nds, eds) ==
  IF Len(nds) <= 1 THEN ToastFlowSaved
  ELSE IF Cardinality(nodesWithoutTargets(nds, eds)) > 1 THEN ToastValidationError
  ELSE ToastFlowSaved

\* variant: the save drops edges whose endpoints are not on the canvas
saveFlowPruning ==
  /\ toasts' = <<saveResult(nodes, edges)>>
  /\ sink' = <<>>
  /\ edges' = {edge \in edges : edge.source \in NodeIds(nodes) /\ edge.target \in NodeIds(nodes)}
  /\ UNCHANGED <<nodes, selectedNode, localData, hasChanges, timers, now>>

saveFlow ==
  /\ toasts' = <<saveResult(nodes, edges)>>
  /\ sink' = <<>>
  /\ UNCHANGED <<nodes, edges, selectedNode, localData, hasChanges, timers, now>>

(* ---- useNodesState / useEdgesState change handlers ---- *)
RECURSIVE removeNode(_, _)
removeNode(nds, id) ==
  IF nds = <<>> THEN <<>>
  ELSE IF Head(nds).id = id THEN removeNode(Tail(nds), id)
  ELSE <<Head(nds)>> \o removeNode(Tail(nds), id)

\* onNodesChange with a change of type 'remove'
onNodesChange(id) ==
  /\ nodes' = removeNode(nodes, id)
  /\ toasts' = <<>>
  /\ sink' = <<>>
  /\ UNCHANGED <<edges, selectedNode, localData, hasChanges, timers, now>>

\* onEdgesChange with a change of type 'remove'
onEdgesChange(edge) ==
  /\ edges' = edges \ {edge}
  /\ toasts' = <<>>
  /\ sink' = <<>>
  /\ UNCHANGED <<nodes, selectedNode, localData, hasChanges, timers, now>>

(* ---- FlowBuilder.addNode and its two callers ---- *)
\* variant: the payload of a node of unknown type is given to every node
newNodeBlank(nds, type, position, clock) ==
  [id |-> <<Len(nds) + 1, clock>>, type |-> type, position |-> position,
   data |-> [text |-> "", label |-> "Node"]]

newNode(nds, type, position, clock) ==
  [id |-> <<Len(nds) + 1, clock>>, type |-> type, position |-> position,
   data |-> [text |-> IF type = "textNode" THEN "Click to edit this message..." ELSE "",
             label |-> IF type = "textNode" THEN "Message" ELSE "Node"]]

addNode(type, position) ==
  /\ Len(nodes) < MaxNodes
  /\ nodes' = Append(nodes, newNode(nodes, type, position, now))
  /\ toasts' = <<>>
  /\ sink' = <<>>
  /\ UNCHANGED <<edges, selectedNode, localData, hasChanges, timers, now>>

\* NodesPanel.handleAddNode: the palette is rendered only while nothing is selected.
handleAddNode(nodeType, position) ==
  /\ selectedNode = <<>>
  /\ addNode(nodeType, position)

\* FlowBuilder.onDrop: a drag that carries no node type is ignored.
onDrop(type, position) ==
  IF type = ""
    THEN /\ toasts' = <<>>
         /\ sink' = <<>>
         /\ UNCHANGED <<nodes, edges, selectedNode, localData, hasChanges, timers, now>>
    ELSE /\ selectedNode = <<>>
         /\ addNode(type, position)

(* ---- selection ---- *)
\* SettingsPanel's useEffect on [node]: the mirror is re-read from the node prop.
syncLocalData(sel) == IF sel = <<>> THEN <<>> ELSE <<sel[1].data>>

onNodeClick(i) ==
  /\ selectedNode' = <<nodes[i]>>
  /\ \/ /\ localData' = syncLocalData(selectedNode')
        /\ hasChanges' = FALSE
     \* the same node object is set again: no re-render, the effect does not run
     \/ /\ selectedNode' = selectedNode
        /\ UNCHANGED <<localData, hasChanges>>
  /\ toasts' = <<>>
  /\ sink' = <<>>
  /\ UNCHANGED <<nodes, edges, timers, now>>

\* the panel unmounts: callbacks of pending timers keep a dead state setter
orphan(tms) == [i \in 1..Len(tms) |-> [tms[i] EXCEPT !.live = FALSE]]

\* onPaneClick, and SettingsPanel's onClose
onPaneClick ==
  /\ selectedNode' = <<>>
  /\ localData' = <<>>
  /\ hasChanges' = FALSE
  /\ timers' = orphan(timers)
  /\ toasts' = <<>>
  /\ sink' = <<>>
  /\ UNCHANGED <<nodes, edges, now>>

(* ---- FlowBuilder.updateNodeData ---- *)
\* variant: the new fields replace the payload instead of being laid over it
updateNodesReplacing(nds, nodeId, newData) ==
  [i \in 1..Len(nds) |->
     IF nds[i].id = nodeId THEN [nds[i] EXCEPT !.data = newData] ELSE nds[i]]

updateNodes(nds, nodeId, newData) ==
  [i \in 1..Len(nds) |->
     IF nds[i].id = nodeId
       THEN [nds[i] EXCEPT !.data = Spread(nds[i].data, newData)]
       ELSE nds[i]]

\* closureSel is the selectedNode id captured by the callback (<<>> for null),
\* prev the selection at the time the callback runs.
updateSelected(prev, closureSel, nodeId, newData) ==
  IF closureSel = <<nodeId>>
    THEN IF prev # <<>>
           THEN <<[prev[1] EXCEPT !.data = Spread(prev[1].data, newData)]>>
           ELSE <<>>
    ELSE prev

updateNodeData(nodeId, newData, closureSel) ==
  /\ nodes' = updateNodes(nodes, nodeId, newData)
  /\ selectedNode' = updateSelected(selectedNode, closureSel, nodeId, newData)

(* ---- SettingsPanel ---- *)
handleDataChange(field, value) ==
  /\ selectedNode # <<>>
  /\ selectedNode[1].type = "textNode"
  /\ Len(timers) < MaxTimers
  /\ LET newData == Spread(localData[1], field :> value)
     IN /\ localData' = <<newData>>
        /\ hasChanges' = TRUE
        /\ timers' = Append(timers, [nodeId |-> selectedNode[1].id,
                                     newData |-> newData,
                                     closureSel |-> <<selectedNode[1].id>>,
                                     live |-> TRUE])
  /\ toasts' = <<>>
  /\ sink' = <<>>
  /\ UNCHANGED <<nodes, edges, selectedNode, now>>

\* the setTimeout callback of handleDataChange; nothing ever clears the timer
timerFires ==
  /\ timers # <<>>
  /\ LET t == Head(timers)
     IN /\ updateNodeData(t.nodeId, t.newData, t.closureSel)
        /\ IF selectedNode = <<>>
             THEN UNCHANGED <<localData, hasChanges>>
             ELSE IF selectedNode' # selectedNode \/ t.closureSel = <<t.nodeId>>
               THEN /\ localData' = syncLocalData(selectedNode')
                    /\ hasChanges' = FALSE
               ELSE /\ localData' = localData
                    /\ hasChanges' = IF t.live THEN FALSE ELSE hasChanges
  /\ timers' = Tail(timers)
  /\ toasts' = <<>>
  /\ sink' = <<>>
  /\ UNCHANGED <<edges, now>>

\* the panel's "Save Changes" button, disabled unless hasChanges
saveChanges ==
  /\ selectedNode # <<>>
  /\ hasChanges
  /\ updateNodeData(selectedNode[1].id, localData[1], <<selectedNode[1].id>>)
  /\ localData' = syncLocalData(selectedNode')
  /\ hasChanges' = FALSE
  /\ toasts' = <<>>
  /\ sink' = <<>>
  /\ UNCHANGED <<edges, timers, now>>

(* ---- TextNode.handleSave (in-node editor) ---- *)
handleSave(id, editText) ==
  /\ nodes' = [i \in 1..Len(nodes) |->
                 IF nodes[i].id = id
                   THEN [nodes[i] EXCEPT !.data = Spread(nodes[i].data, "text" :> editText)]
                   ELSE nodes[i]]
  /\ toasts' = <<>>
  /\ sink' = <<>>
  /\ UNCHANGED <<edges, selectedNode, localData, hasChanges, timers, now>>

(* ---- the clock read by Date.now() ---- *)
Tick ==
  /\ now < MaxClock
  /\ now' = now + 1
  /\ UNCHANGED <<nodes, edges, selectedNode, localData, hasChanges, timers, toasts, sink>>

Init ==
  /\ nodes = initialNodes
  /\ edges = initialEdges
  /\ selectedNode = <<>>
  /\ localData = <<>>
  /\ hasChanges = FALSE
  /\ timers = <<>>
  /\ now = 1
  /\ toasts = <<>>
  /\ sink = <<>>

Next ==
  \/ \E params \in Connections(SourceHandles) : onConnect(params)
  \/ saveFlow
  \/ \E id \in NodeIds(nodes) : onNodesChange(id)
  \/ \E edge \in edges : onEdgesChange(edge)
  \/ \E type \in PaletteTypes, position \in Positions : handleAddNode(type, position)
  \/ \E type \in DropTypes, position \in Positions : onDrop(type, position)
  \/ \E i \in 1..Len(nodes) : onNodeClick(i)
  \/ onPaneClick
  \/ \E field \in Fields, value \in InspectorVals : handleDataChange(field, value)
  \/ timerFires
  \/ saveChanges
  \/ \E id \in NodeIds(nodes), editText \in InlineVals : handleSave(id, editText)
  \/ Tick

Spec == Init /\ [][Next]_vars

\* The canvas as rendered: the handlers that read or write the edge array, with
\* node creation and removal and selection around them, all within one
\* reading of the clock.  The payload editors (inspector, in-node editor)
\* never read or write the edge array.
NextCanvas ==
  \/ \E params \in Connections(SourceHandles) : onConnect(params)
  \/ saveFlow
  \/ \E id \in NodeIds(nodes) : onNodesChange(id)
  \/ \E edge \in edges : onEdgesChange(edge)
  \/ \E type \in PaletteTypes, position \in Positions : handleAddNode(type, position)
  \/ \E type \in DropTypes, position \in Positions : onDrop(type, position)
  \/ \E i \in 1..Len(nodes) : onNodeClick(i)
  \/ onPaneClick

SpecCanvas == Init /\ [][NextCanvas]_vars

\* Graph editing with every connection the Connection type admits (named and
\* unnamed source handles), nothing selected.
NextGraph ==
  \/ \E params \in Connections(AnyHandles) : onConnect(params)
  \/ saveFlow
  \/ \E id \in NodeIds(nodes) : onNodesChange(id)
  \/ \E edge \in edges : onEdgesChange(edge)
  \/ \E type \in PaletteTypes, position \in Positions : handleAddNode(type, position)
  \/ \E type \in DropTypes, position \in Positions : onDrop(type, position)

SpecGraph == Init /\ [][NextGraph]_vars

\* Node identity: creation and removal of nodes while the clock may or may not
\* advance between two calls.
NextIds ==
  \/ \E type \in PaletteTypes, position \in Positions : handleAddNode(type, position)
  \/ \E type \in DropTypes, position \in Positions : onDrop(type, position)
  \/ \E id \in NodeIds(nodes) : onNodesChange(id)
  \/ \E i \in 1..Len(nodes) : onNodeClick(i)
  \/ onPaneClick
  \/ Tick

SpecIds == Init /\ [][NextIds]_vars

\* Payload editing: the inspector with its deferred commits, the in-node
\* editor, selection, and the Save button of the canvas, on a flow without
\* edges, within one reading of the clock.
NextPanel ==
  \/ \E type \in PaletteTypes, position \in Positions : handleAddNode(type, position)
  \/ \E i \in 1..Len(nodes) : onNodeClick(i)
  \/ onPaneClick
  \/ \E field \in Fields, value \in InspectorVals : handleDataChange(field, value)
  \/ timerFires
  \/ saveChanges
  \/ \E id \in NodeIds(nodes), editText \in InlineVals : handleSave(id, editText)
  \/ saveFlow

SpecPanel == Init /\ [][NextPanel]_vars

(* ---- saveFlow applied to every small graph ---- *)
\* the flow after k - 1 palette clicks at clock 1
RECURSIVE sampleNodes(_)
sampleNodes(k) ==
  IF k = 0 THEN <<>>
  ELSE IF k = 1 THEN initialNodes
  ELSE Append(sampleNodes(k - 1),
              newNode(sampleNodes(k - 1), "textNode", [x |-> 200, y |-> 200], 1))

\* the edges onConnect builds when every node has its one unnamed source handle:
\* out[s] is the target of the edge out of s, <<>> when s has none
edgesOf(out) ==
  {[id |-> <<s, NoHandle, out[s], NoHandle>>, source |-> s, sourceHandle |-> NoHandle,
    target |-> out[s], targetHandle |-> NoHandle] : s \in {n \in DOMAIN out : out[n] # <<>>}}

sampleEdges(k) ==
  LET ids == NodeIds(sampleNodes(k))
  IN {edgesOf(out) : out \in [ids -> ids \cup {<<>>}]}

InitSave ==
  /\ nodes \in {sampleNodes(k) : k \in 0..MaxSaveNodes}
  /\ edges \in sampleEdges(MaxSaveNodes)
  /\ selectedNode = <<>>
  /\ localData = <<>>
  /\ hasChanges = FALSE
  /\ timers = <<>>
  /\ now = 1
  /\ toasts = <<>>
  /\ sink = <<>>

NextSave == saveFlow

SpecSave == InitSave /\ [][NextSave]_vars

(* ---- updateNodeData applied to every small flow ---- *)
\* Partial<TextNodeData>
PartialData == UNION {[S -> InspectorVals] : S \in SUBSET Fields}

\* FlowBuilder passes updateNodeData as the panel's onUpdateNode; the panel's
\* effect re-reads the mirror when the selection object is replaced.
onUpdateNode(nodeId, newData, closureSel) ==
  /\ updateNodeData(nodeId, newData, closureSel)
  /\ IF selectedNode # <<>> /\ closureSel = <<nodeId>>
       THEN /\ localData' = syncLocalData(selectedNode')
            /\ hasChanges' = FALSE
       ELSE UNCHANGED <<localData, hasChanges>>
  /\ toasts' = <<>>
  /\ sink' = <<>>
  /\ UNCHANGED <<edges, timers, now>>

InitUpdate ==
  /\ nodes \in {sampleNodes(k) : k \in 1..MaxUpdateNodes}
  /\ edges \in sampleEdges(2)
  /\ selectedNode \in {<<>>} \cup {<<nodes[i]>> : i \in 1..Len(nodes)}
  /\ localData = syncLocalData(selectedNode)
  /\ hasChanges = FALSE
  /\ timers = <<>>
  /\ now = 1
  /\ toasts = <<>>
  /\ sink = <<>>

NextUpdate ==
  \E nodeId \in NodeIds(sampleNodes(MaxUpdateNodes + 1)), newData \in PartialData :
    \E closureSel \in {<<>>, <<nodeId>>} :
      onUpdateNode(nodeId, newData, closureSel)

SpecUpdate == InitUpdate /\ [][NextUpdate]_vars

(***************************************************************************)
(* Properties                                                              *)
(***************************************************************************)
sameSourceHandle(params, edge) ==
  edge.source = params.source /\ edge.sourceHandle = params.sourceHandle

edgeOf(params) ==
  [id |-> <<params.source, params.sourceHandle, params.target, params.targetHandle>>,
   source |-> params.source, sourceHandle |-> params.sourceHandle,
   target |-> params.target, targetHandle |-> params.targetHandle]

noIncoming(i) == \A e \in edges : e.target # nodes[i].id
noOutgoing(i) == \A e \in edges : e.source # nodes[i].id
SeveralEntryNodes ==
  \E i, j \in 1..Len(nodes) : i # j /\ noIncoming(i) /\ noIncoming(j)
SeveralTerminalNodes ==
  \E i, j \in 1..Len(nodes) : i # j /\ noOutgoing(i) /\ noOutgoing(j)

C3_SmallFlowAlwaysSaved ==
  [][saveFlow => (Len(nodes) <= 1 => toasts' = <<ToastFlowSaved>>)]_vars

\* a one-node flow is saved although an edge points at a node that is gone,
\* and nothing points at the node that is left
C3_Witness ==
  /\ Len(nodes) = 1
  /\ toasts = <<ToastFlowSaved>>
  /\ noIncoming(1)
  /\ \E e \in edges : e.target \notin NodeIds(nodes)

C5_RejectionLeavesState ==
  [][\A params \in Connections(AnyHandles) :
       (onConnect(params) /\ \E edge \in edges : sameSourceHandle(params, edge)) =>
         /\ toasts' = <<ToastConnectionError>>
         /\ toasts'[1].title = "Connection Error"
         /\ nodes' = nodes
         /\ edges' = edges
         /\ selectedNode' = selectedNode]_vars

\* a connection has just been refused while a node is selected
C5_Witness ==
  /\ toasts = <<ToastConnectionError>>
  /\ edges # {}
  /\ selectedNode # <<>>

\* C6 (as the README words the rule): with more than one node, the save is
\* aborted exactly when more than one node has no outgoing edge.
C6_SaveRejectsIffSeveralTerminalNodes ==
  [][saveFlow =>
       (Len(nodes) > 1 =>
          toasts' = IF SeveralTerminalNodes THEN <<ToastValidationError>>
                                            ELSE <<ToastFlowSaved>>)]_vars

\* C7: a save that passes validation hands the snapshot {nodes, edges} to the
\* external sink; a save that fails validation hands off nothing.
C7_SavedFlowHandedOff ==
  /\ toasts = <<ToastFlowSaved>> => sink = <<[nodes |-> nodes, edges |-> edges]>>
  /\ toasts = <<ToastValidationError>> => sink = <<>>

\* C8: saveFlow leaves nodes, edges and selection unchanged, and a save that
\* directly follows a save reports the same result.
C8_SaveIsPure ==
  [][saveFlow =>
       /\ nodes' = nodes
       /\ edges' = edges
       /\ selectedNode' = selectedNode
       /\ (toasts \in {<<ToastFlowSaved>>, <<ToastValidationError>>} => toasts' = toasts)]_vars

\* a refused save of a flow that holds a dangling edge and a selection
C8_Witness ==
  /\ toasts = <<ToastValidationError>>
  /\ selectedNode # <<>>
  /\ \E e \in edges : e.target \notin NodeIds(nodes)

\* C9 (as stated): every saveFlow call and every onConnect call emits exactly
\* one notification.
C9_OneNotificationPerCall ==
  [][(saveFlow \/ \E params \in Connections(AnyHandles) : onConnect(params)) => Len(toasts') = 1]_vars

\* C9 (amended): every saveFlow call and every rejected onConnect call emits
\* exactly one notification; an accepted onConnect emits none.
C9_OneNotificationUnlessAccepted ==
  [][/\ saveFlow => Len(toasts') = 1
     /\ \A params \in Connections(AnyHandles) :
          onConnect(params) =>
            Len(toasts') = IF \E edge \in edges : sameSourceHandle(params, edge)
                             THEN 1 ELSE 0]_vars

\* the edge set is full of accepted edges and the last call emitted nothing
C9_Witness ==
  /\ toasts = <<>>
  /\ Cardinality(edges) >= 2
  /\ \A e \in edges : e.source \in NodeIds(nodes) /\ e.target \in NodeIds(nodes)

\* C10: updateNodeData lays the given fields over the payload of the nodes
\* whose id is nodeId and changes nothing else of the node array or the edges;
\* an unknown id leaves the node array as it was.
C10_UpdateTouchesOnlyPayload ==
  [][\A nodeId \in NodeIds(sampleNodes(MaxUpdateNodes + 1)), newData \in PartialData :
       \A closureSel \in {<<>>, <<nodeId>>} :
         onUpdateNode(nodeId, newData, closureSel) =>
           /\ Len(nodes') = Len(nodes)
           /\ \A i \in 1..Len(nodes) :
                IF nodes[i].id = nodeId
                  THEN /\ nodes'[i].id = nodes[i].id
                       /\ nodes'[i].type = nodes[i].type
                       /\ nodes'[i].position = nodes[i].position
                       /\ DOMAIN nodes'[i].data = Fields
                       /\ \A f \in Fields :
                            nodes'[i].data[f] = IF f \in DOMAIN newData THEN newData[f]
                                                ELSE nodes[i].data[f]
                  ELSE nodes'[i] = nodes[i]
           /\ edges' = edges
           /\ (nodeId \notin NodeIds(nodes) => nodes' = nodes)]_vars

\* one field of one node was overlaid, its other field and the other node
\* kept, with edges on the canvas
C10_Witness ==
  /\ Len(nodes) = 2
  /\ edges # {}
  /\ nodes[1].data.text \in InspectorVals
  /\ nodes[1].data.label = initialNodes[1].data.label
  /\ nodes[2] = sampleNodes(2)[2]

\* C11: no two nodes of the node array have the same id, whatever additions
\* and removals were made and whether or not the clock advanced between them.
C11_NodeIdsUnique ==
  \A i, j \in 1..Len(nodes) : nodes[i].id = nodes[j].id => i = j

\* a deferred inspector write whose fields the node array already holds
committed(t) ==
  \A i \in 1..Len(nodes) :
     nodes[i].id = t.nodeId => nodes[i].data = Spread(nodes[i].data, t.newData)

\* C12: whenever saveFlow runs, every deferred inspector write scheduled
\* earlier has already been committed to the node array.
C12_SaveAfterFlush ==
  [][saveFlow => \A k \in 1..Len(timers) : committed(timers[k])]_vars

\* C13: inspector edits are debounced: an edit cancels the deferred commit of
\* the edit it supersedes, so a node never has two deferred commits pending.
C13_OnePendingCommitPerNode ==
  \A j, k \in 1..Len(timers) : timers[j].nodeId = timers[k].nodeId => j = k

\* C14: addNode has no refusal path; for any type and position it appends
\* exactly one node of that type at that position with the default payload
\* of the type, and leaves the existing nodes, the edges and the selection
\* as they were.
C14_AddNodeAppendsOne ==
  [][\A type \in PaletteTypes, position \in Positions :
       /\ Len(nodes) < MaxNodes => ENABLED addNode(type, position)
       /\ addNode(type, position) =>
            /\ Len(nodes') = Len(nodes) + 1
            /\ SubSeq(nodes', 1, Len(nodes)) = nodes
            /\ nodes'[Len(nodes')].type = type
            /\ nodes'[Len(nodes')].position = position
            /\ nodes'[Len(nodes')].data =
                 [text |-> "Click to edit this message...", label |-> "Message"]
            /\ edges' = edges
            /\ selectedNode' = selectedNode
            /\ toasts' = <<>>]_vars

\* a node with the default payload behind the initial node, on a canvas that
\* holds an edge
C14_Witness ==
  /\ Len(nodes) = 2
  /\ nodes[1] = initialNodes[1]
  /\ nodes[2].type = "textNode"
  /\ nodes[2].data = [text |-> "Click to edit this message...", label |-> "Message"]
  /\ edges = {[id |-> <<nodes[1].id, NoHandle, nodes[1].id, NoHandle>>,
               source |-> nodes[1].id, sourceHandle |-> NoHandle,
               target |-> nodes[1].id, targetHandle |-> NoHandle]}
  /\ toasts = <<>>

\* C15: a deferred inspector commit that fires while another node is selected
\* than the one it was scheduled for changes only the payload of its own
\* node: the selection mirror and the other nodes stay as they were.
C15_LateCommitTouchesOnlyItsNode ==
  [][(/\ timerFires
      /\ selectedNode # <<>>
      /\ Head(timers).nodeId # selectedNode[1].id) =>
        /\ selectedNode' = selectedNode
        /\ localData' = localData
        /\ \A i \in 1..Len(nodes) :
             nodes[i].id # Head(timers).nodeId => nodes'[i] = nodes[i]]_vars

\* C16: while a node is selected and no inspector edit is pending (no
\* deferred commit, no unsaved change), the selection snapshot and the
\* inspector's mirror hold the payload the node array holds for that node.
C16_MirrorEqualsNode ==
  (selectedNode # <<>> /\ timers = <<>> /\ ~hasChanges) =>
     \A i \in 1..Len(nodes) :
        nodes[i].id = selectedNode[1].id =>
           /\ selectedNode[1].data = nodes[i].data
           /\ localData[1] = nodes[i].data

\* C17: hasChanges is true whenever an inspector edit of the selected node
\* has been made and the node array does not hold it yet.
C17_PendingEditFlagged ==
  (/\ selectedNode # <<>>
   /\ \E k \in 1..Len(timers) :
         timers[k].nodeId = selectedNode[1].id /\ ~committed(timers[k])) =>
     hasChanges
====
